---- MODULE Spec2Model ----
(***************************************************************************)
(* The YouTube input plugin: Gather walks the pages of a playlist with     *)
(* gatherPlaylist, then asks the videos endpoint for the statistics of     *)
(* every identifier with gatherVideoStatistics and adds one metric per     *)
(* identifier to the accumulator (extractAllStats builds the fields).      *)
(* The upstream is the environment: every page response is chosen when it  *)
(* is received, the documents of the videos endpoint when the statistics   *)
(* loop starts.                                                            *)
(* The GitHub input plugin is modelled next to it: Gather lists the        *)
(* repositories with gatherTopStats and asks for the contributors of a     *)
(* repository with gatherRepoContributors.                                 *)
(***************************************************************************)
EXTENDS Integers, Sequences, FiniteSets, TLC

VARIABLES
  pc,          \* where the call is: idle, page_req, walked, stats_req, stats_ret, done, panic
  mutex,       \* the instance's sync.Mutex is held
  pageToken,   \* pageToken of the page request in flight
  stack,       \* the responses to the page requests of the walk, outermost call first
  videoIds,    \* the list gatherPlaylist returned
  walkErr,     \* the err gatherPlaylist returned
  detail,      \* what the videos endpoint answers for an identifier
  idx,         \* position of the loop of gatherVideoStatistics
  metrics,     \* the AddFields calls on the accumulator
  errors,      \* the non-nil AddError calls on the accumulator
  statsErr,    \* the err gatherVideoStatistics returned
  gatherRet,   \* what Gather returned: none, nil, err
  pageReqs,    \* page requests sent in this cycle
  statsReqs,   \* detail requests sent in this cycle
  pageFailed,  \* history: a page request of this cycle failed
  statsLog,    \* history: the id parameter of the detail requests sent in this cycle
  earlier,     \* history: a call of Gather ended before the current one
  u,           \* the url.URL that playlist_url and stats_url both point to
  callers,     \* per calling goroutine: out of Gather, blocked in Lock, in Gather
  ghPc,            \* GitHub: the goroutine: idle, top_req, loop, contrib_req, done
  ghWg,            \* GitHub: the counter of the WaitGroup of Gather
  ghReqs,          \* GitHub: history: the requests answered in this call
  GetContributors, \* GitHub: the get_contributors setting
  ghMetrics,       \* GitHub: the metrics gatherTopStats parsed from the listing
  ghIdx,           \* GitHub: position of the loop of gatherTopStats
  ghAcc,           \* GitHub: the AddFields calls on the accumulator
  ghErrors,        \* GitHub: the non-nil AddError calls on the accumulator
  ghRet,           \* GitHub: what Gather returned: none, nil
  twitter,         \* Twitter: the goroutine's position, the WaitGroup counter, what
                   \* TimelineShow gave, the accumulator and what Gather returned
  wordpress,       \* Wordpress: the goroutine's position, the WaitGroup counter, the
                   \* URI settings, the gatherers run, the accumulator and what
                   \* Gather returned
  youtubeGo        \* YouTube with a goroutine: the goroutine's position, the
                   \* WaitGroup counter, the accumulator and what Gather returned

youtubeVars == <<pc, mutex, pageToken, stack, videoIds, walkErr, detail, idx,
                 metrics, errors, statsErr, gatherRet, pageReqs, statsReqs,
                 pageFailed, statsLog, earlier, u, callers>>

githubVars == <<ghPc, ghWg, ghReqs, GetContributors, ghMetrics, ghIdx, ghAcc,
                ghErrors, ghRet>>

twitterVars == <<twitter>>

wordpressVars == <<wordpress>>

youtubeGoVars == <<youtubeGo>>

\* the variables of the inputs other than the one named
exceptYoutube == <<githubVars, twitterVars, wordpressVars, youtubeGoVars>>
exceptGithub == <<youtubeVars, twitterVars, wordpressVars, youtubeGoVars>>
exceptTwitter == <<youtubeVars, githubVars, wordpressVars, youtubeGoVars>>
exceptWordpress == <<youtubeVars, githubVars, twitterVars, youtubeGoVars>>
exceptYoutubeGo == <<youtubeVars, githubVars, twitterVars, wordpressVars>>

vars == <<youtubeVars, githubVars, twitterVars, wordpressVars, youtubeGoVars>>

(* ------------------------------ bounds --------------------------------- *)

\* longest chain of listing pages the upstream serves in one walk
MaxPages == 2
\* most items in one listing page
MaxItems == 2
\* largest pageInfo.resultsPerPage a page reports
MaxRpp == 2
\* longest identifier list handed to gatherVideoStatistics directly
MaxIds == 2
\* most repositories in a GitHub listing
MaxRepos == 2
\* most contributors in the answer to one contributors request
MaxContributors == 2
\* most tweets TimelineShow returns
MaxTweets == 2
\* most metrics the parser makes of the answer of a Wordpress endpoint
MaxPosts == 1
\* most accumulator calls gatherPlaylist makes in the goroutine of Gather
MaxCalls == 2

\* identifiers the upstream lists
VideoIds == {"a", "b"}
\* continuation tokens the upstream hands out
Tokens == {"t1"}
\* the numbers a statistics field encodes
Numbers == {0, 7}

(* ------------------------------ constants ------------------------------ *)

playlist_items_endpoint == "/youtube/v3/playlistItems"
video_statistics_endpoint == "/youtube/v3/videos"

\* the settings of the sample configuration
PlaylistId == "my-playlist-id"
ApiKey == "my-api-key"

\* the goroutines that call Gather on the instance
Callers == {"g1", "g2"}
FirstCaller == "g1"

\* the fields extractAllStats writes
StatKeys == {"viewCount", "likeCount", "dislikeCount", "favoriteCount",
             "commentCount"}

(* ------------------------- JSON values (gjson) ------------------------- *)

\* a gjson.Result: its Type, Num for a number, Str for a string (a
\* sequence of characters), Raw for an array
NullResult == [type |-> "Null", num |-> 0, str |-> <<>>]
NumberResult(n) == [type |-> "Number", num |-> n, str |-> <<>>]
StringResult(s) == [type |-> "String", num |-> 0, str |-> s]
ArrayResult(raw) == [type |-> "JSON", num |-> 0, str |-> raw]

Digits == {"0", "1", "2", "3", "4", "5", "6", "7", "8", "9"}

DigitVal(c) ==
  CASE c = "0" -> 0 [] c = "1" -> 1 [] c = "2" -> 2 [] c = "3" -> 3
    [] c = "4" -> 4 [] c = "5" -> 5 [] c = "6" -> 6 [] c = "7" -> 7
    [] c = "8" -> 8 [] c = "9" -> 9

DigitChars == <<"0", "1", "2", "3", "4", "5", "6", "7", "8", "9">>

RECURSIVE Itoa(_)
\* the decimal text of a natural number, as the upstream writes it
Itoa(n) ==
  IF n < 10 THEN <<DigitChars[n + 1]>>
  ELSE Append(Itoa(n \div 10), DigitChars[(n % 10) + 1])

RECURSIVE parseDigits_noShift(_, _, _)
\* a mutant of parseDigits: the digits are added up without the factor 10
parseDigits_noShift(s, i, n) ==
  IF i > Len(s) THEN [n |-> n, ok |-> TRUE]
  ELSE IF s[i] \in Digits THEN parseDigits_noShift(s, i + 1, n + DigitVal(s[i]))
  ELSE [n |-> 0, ok |-> FALSE]

RECURSIVE parseDigits(_, _, _)
\* the digit loop of gjson's parseInt: ok is FALSE at the first character
\* that is not a digit
parseDigits(s, i, n) ==
  IF i > Len(s) THEN [n |-> n, ok |-> TRUE]
  ELSE IF s[i] \in Digits THEN parseDigits(s, i + 1, n * 10 + DigitVal(s[i]))
  ELSE [n |-> 0, ok |-> FALSE]

\* gjson's parseInt: an optional sign, then digits only
parseInt(s) ==
  LET sign == Len(s) > 0 /\ s[1] = "-"
      start == IF sign THEN 2 ELSE 1
  IN IF start > Len(s) THEN [n |-> 0, ok |-> FALSE]
     ELSE LET r == parseDigits(s, start, 0)
          IN IF r.ok /\ sign THEN [n |-> 0 - r.n, ok |-> TRUE] ELSE r

\* Result.Int(): a number as it is, a string through parseInt with the
\* failure dropped (n, _ := parseInt), 0 for every other type
ResultInt(t) ==
  CASE t.type = "Number" -> t.num
    [] t.type = "String" -> parseInt(t.str).n
    [] OTHER -> 0

(* --------------------------- the upstream ------------------------------ *)

NoToken == [exists |-> FALSE, str |-> ""]
Token(s) == [exists |-> TRUE, str |-> s]

RECURSIVE SeqsUpTo(_, _)
\* the sequences over S of length at most n
SeqsUpTo(S, n) ==
  IF n = 0 THEN {<<>>}
  ELSE LET shorter == SeqsUpTo(S, n - 1)
       IN shorter \cup {Append(s, x) : s \in {t \in shorter : Len(t) = n - 1}, x \in S}

StatusOK == 200
StatusNotFound == 404

\* what client.Do gives for a request: ok is FALSE for a transport error
\* or timeout; otherwise the response has a status code and a body, the
\* body being a JSON document with or without a UTF-8 byte-order mark in
\* front of it
Served(status, bom, json) == [ok |-> TRUE, status |-> status, bom |-> bom, json |-> json]
Failed(json) == [ok |-> FALSE, status |-> 0, bom |-> FALSE, json |-> json]

\* a playlistItems document
PageJson(resultsPerPage, items, nextPageToken) ==
  [resultsPerPage |-> resultsPerPage, items |-> items, nextPageToken |-> nextPageToken]

\* the document of an error response: no pageInfo, no items, no token
ErrorJson == PageJson(0, <<>>, NoToken)
\* a document that lists one identifier
OneItemJson == PageJson(1, <<"a">>, NoToken)

\* a failed request (transport error or timeout)
FailedPage == Failed(ErrorJson)

\* responses that are not a plain 200: an error status with an error
\* document, an error status with a listing as body, and a 200 whose body
\* starts with a byte-order mark
OddPages ==
  {Served(StatusNotFound, FALSE, ErrorJson),
   Served(StatusNotFound, FALSE, OneItemJson),
   Served(StatusOK, TRUE, OneItemJson)}

\* a page whose nextPageToken is there and is the empty string
EmptyTokenPage == Served(StatusOK, FALSE, PageJson(1, <<"a">>, Token("")))

\* the responses the playlistItems endpoint can give to the depth-th page
\* request of a walk; the last page the bound allows carries no token
PageResponses(depth) ==
  {FailedPage} \cup OddPages \cup
  (IF depth < MaxPages THEN {EmptyTokenPage} ELSE {}) \cup
  {Served(StatusOK, FALSE, j) :
     j \in [resultsPerPage : 0..MaxRpp, items : SeqsUpTo(VideoIds, MaxItems),
            nextPageToken : {NoToken} \cup
               (IF depth < MaxPages THEN {Token(s) : s \in Tokens} ELSE {})]}

\* a failed request to the videos endpoint
FailedDoc == Failed([items |-> <<>>])
Doc(items) == Served(StatusOK, FALSE, [items |-> items])

\* the statistics value of an item: missing, a scalar, or an object with
\* members
EmptyMap == [k \in {} |-> 0]
NoStatistics == [type |-> "Null", members |-> EmptyMap]
ScalarStatistics == [type |-> "String", members |-> EmptyMap]
StatisticsObject(members) == [type |-> "JSON", members |-> members]

Absent == [type |-> "Absent", num |-> 0, str |-> <<>>]
\* the object holding the keys of f that are not Absent
Members(f) == [k \in {j \in DOMAIN f : f[j] # Absent} |-> f[k]]

Quoted(n) == StringResult(Itoa(n))
Wrapped(n) == ArrayResult(<<"[", "\"">> \o Itoa(n) \o <<"\"", "]">>)
NotANumber ==
  StringResult(<<"n", "o", "t", "-", "a", "-", "n", "u", "m", "b", "e", "r">>)

\* the three encodings of a number, the unparseable string, and absence
Encodings ==
  {Absent, NotANumber} \cup
  UNION {{NumberResult(n), Quoted(n), Wrapped(n)} : n \in Numbers}

\* the statistics of testVideoStatsJSON
TestStatistics ==
  StatisticsObject([viewCount |-> Quoted(5574069), likeCount |-> Quoted(843),
                    dislikeCount |-> Quoted(74), favoriteCount |-> Quoted(0),
                    commentCount |-> Quoted(128)])

\* statistics objects: viewCount in every encoding, likeCount in the
\* encodings of 7, and either the other three fields, or a foreign key,
\* or nothing else
RichStatistics ==
  {NoStatistics, ScalarStatistics, TestStatistics} \cup
  {StatisticsObject(Members(
      [viewCount |-> v, likeCount |-> l,
       dislikeCount |-> IF more = "rest" THEN Quoted(74) ELSE Absent,
       favoriteCount |-> IF more = "rest" THEN Quoted(0) ELSE Absent,
       commentCount |-> IF more = "rest" THEN Quoted(128) ELSE Absent,
       etag |-> IF more = "other" THEN Quoted(1) ELSE Absent])) :
     v \in Encodings, l \in {Absent, NumberResult(7), Quoted(7), Wrapped(7)},
     more \in {"none", "rest", "other"}}

\* the identifiers a detail request can carry: a listed identifier or
\* the "" of an unfilled slot
RequestIds == VideoIds \cup {""}

OtherId(v) == CHOOSE w \in VideoIds : w # v

\* what the videos endpoint can answer to a request for v: a failure, or
\* a document whose item v has one of the given statistics
DocsFor(v, statistics) ==
  {FailedDoc} \cup {Doc(<<[id |-> v, statistics |-> s]>>) : s \in statistics}

\* further answers: no item, only another item, another item before v
OddDocsFor(v) ==
  {Doc(<<>>), Doc(<<[id |-> OtherId(v), statistics |-> TestStatistics]>>),
   Doc(<<[id |-> OtherId(v), statistics |-> NoStatistics],
         [id |-> v, statistics |-> TestStatistics]>>)}

\* the statistics a whole cycle is run against
CycleStatistics == {NoStatistics, TestStatistics}

\* answers that are not a plain 200, the body being the document of the
\* test for v: an error status, and a byte-order mark in front of the body
TestItem(v) == [id |-> v, statistics |-> TestStatistics]
NotFoundDoc(v) == Served(StatusNotFound, FALSE, [items |-> <<TestItem(v)>>])
BomDoc(v) == Served(StatusOK, TRUE, [items |-> <<TestItem(v)>>])

\* per identifier, the answers of the videos endpoint in a whole cycle;
\* a request for the "" of an unfilled slot fails or finds no item
CycleDocs ==
  [v \in RequestIds |->
     IF v = "" THEN {FailedDoc, Doc(<<>>)} ELSE DocsFor(v, CycleStatistics)]
\* per identifier, the answers when gatherVideoStatistics is run on its own
RichDocs ==
  [v \in RequestIds |->
     DocsFor(v, RichStatistics) \cup OddDocsFor(v) \cup {NotFoundDoc(v), BomDoc(v)}]

\* the ways the videos endpoint can answer the identifiers of S
Details(S, docs) ==
  {d \in [S -> UNION {docs[v] : v \in S}] : \A v \in S : d[v] \in docs[v]}

\* the ways the videos endpoint can answer in a whole cycle, per set of
\* identifiers requested
CycleDetails == [S \in SUBSET RequestIds |-> Details(S, CycleDocs)]

(* ------------------------------ request URLs --------------------------- *)

\* url.Values{}
NoParams == [k \in {} |-> ""]

\* Values.Add on a key the values do not hold yet
Add(parameters, key, value) ==
  [k \in DOMAIN parameters \cup {key} |-> IF k = key THEN value ELSE parameters[k]]

\* the URL object NewYouTube makes (scheme and host are the same in every
\* request and left out): no path, no query
NewUrl == [Path |-> "", RawQuery |-> NoParams]

\* the URL object after gatherPlaylist has set it up for pageToken
PlaylistUrl(url, token) ==
  LET parameters ==
        Add(Add(Add(NoParams, "part", "snippet"), "playlistId", PlaylistId),
            "key", ApiKey)
  IN [Path |-> playlist_items_endpoint,
      RawQuery |-> IF token # "" THEN Add(parameters, "pageToken", token)
                   ELSE parameters]

\* a mutant of StatsUrl: the path is not set again, as if stats_url were
\* an object of its own whose path is set once
StatsUrl_pathKept(url, videoId) ==
  [Path |-> url.Path,
   RawQuery |-> Add(Add(Add(NoParams, "part", "statistics"), "key", ApiKey),
                    "id", videoId)]

\* the URL object after a pass of the loop of gatherVideoStatistics has
\* set it up for videoId
StatsUrl(url, videoId) ==
  [Path |-> video_statistics_endpoint,
   RawQuery |-> Add(Add(Add(NoParams, "part", "statistics"), "key", ApiKey),
                    "id", videoId)]

\* the URL handed to sendRequest for the request in flight: the string of
\* the URL object, which is not written again before sendRequest returns
request == u

\* the callers after the call that is in Gather has returned
Returned(cs) == [c \in DOMAIN cs |-> IF cs[c] = "in" THEN "out" ELSE cs[c]]

(* ------------------------------ sendRequest ---------------------------- *)

\* the return of sendRequest for what client.Do gave: (nil, err) when
\* client.Do failed; otherwise the body as ioutil.ReadAll read it and a nil
\* error, whatever the status code, a byte-order mark left in place
sendRequest(resp) ==
  IF ~resp.ok THEN [body |-> [bom |-> FALSE, json |-> resp.json], err |-> TRUE]
  ELSE [body |-> [bom |-> resp.bom, json |-> resp.json], err |-> FALSE]

\* the document gjson.Get queries in a body: gjson scans forward to the
\* first '{' or '[', so bytes in front of the document are passed over
Json(body) == body.json

(* --------------------------- extractAllStats --------------------------- *)

RECURSIVE FirstItem(_, _, _)
\* gjson "items.#[id==\"videoId\"]": the first item with that id
FirstItem(items, videoId, i) ==
  IF i > Len(items) THEN [id |-> videoId, statistics |-> NoStatistics]
  ELSE IF items[i].id = videoId THEN items[i]
  ELSE FirstItem(items, videoId, i + 1)

\* Result.Get(key) on the statistics value
Get(result, key) ==
  IF result.type = "JSON" /\ key \in DOMAIN result.members
  THEN result.members[key] ELSE NullResult

\* how often Result.ForEach calls its iterator: never for a missing
\* value, once for a scalar, once per member of an object
ForEachCalls(result) ==
  CASE result.type = "Null" -> 0
    [] result.type = "JSON" -> Cardinality(DOMAIN result.members)
    [] OTHER -> 1

\* the fields extractAllStats leaves in its map: all five, each read with
\* Int(), as soon as the iterator runs once; no field otherwise
extractAllStats(json, videoId) ==
  LET result == FirstItem(json.items, videoId, 1).statistics
  IN IF ForEachCalls(result) > 0
     THEN [k \in StatKeys |-> ResultInt(Get(result, k))]
     ELSE EmptyMap

(* ---------------------------- gatherPlaylist --------------------------- *)

\* make([]string, n): n empty strings
MakeStrings(n) == [k \in 1..n |-> ""]

WalkError == [ids |-> <<>>, err |-> TRUE, panic |-> FALSE]
WalkPanic == [ids |-> <<>>, err |-> FALSE, panic |-> TRUE]

RECURSIVE gatherPlaylist_errDropped(_, _)
\* a mutant of gatherPlaylist: the error of the recursive call is dropped
\* and the call goes on with its own page
gatherPlaylist_errDropped(resps, i) ==
  LET playlist_resp == sendRequest(resps[i])
      r == Json(playlist_resp.body)
  IN
  IF playlist_resp.err THEN WalkError
  ELSE
    LET sub == IF r.nextPageToken.exists THEN gatherPlaylist_errDropped(resps, i + 1)
               ELSE [ids |-> <<>>, err |-> FALSE, panic |-> FALSE]
        slots == MakeStrings(r.resultsPerPage) \o sub.ids
    IN IF sub.panic THEN WalkPanic
       ELSE IF Len(r.items) > Len(slots) THEN WalkPanic
       ELSE [ids |-> [k \in 1..Len(slots) |->
                        IF k <= Len(r.items) THEN r.items[k] ELSE slots[k]],
             err |-> FALSE, panic |-> FALSE]

RECURSIVE gatherPlaylist_deeperFirst(_, _)
\* a mutant of gatherPlaylist: the page's identifiers are appended after
\* the deeper call's list
gatherPlaylist_deeperFirst(resps, i) ==
  LET playlist_resp == sendRequest(resps[i])
      r == Json(playlist_resp.body)
  IN
  IF playlist_resp.err THEN WalkError
  ELSE
    LET sub == IF r.nextPageToken.exists THEN gatherPlaylist_deeperFirst(resps, i + 1)
               ELSE [ids |-> <<>>, err |-> FALSE, panic |-> FALSE]
    IN IF sub.panic THEN WalkPanic
       ELSE IF sub.err THEN WalkError
       ELSE [ids |-> sub.ids \o r.items, err |-> FALSE, panic |-> FALSE]

RECURSIVE gatherPlaylist(_, _)
\* the return of the call of gatherPlaylist whose request was answered by
\* resps[i], the deeper calls' by resps[i+1..]: (nil, err) when the request
\* or the recursive call failed, else resultsPerPage empty slots, the
\* deeper call's list appended, and the page's identifiers written over
\* the slots from index 0; a write past the end panics
gatherPlaylist(resps, i) ==
  LET playlist_resp == sendRequest(resps[i])
      r == Json(playlist_resp.body)
  IN
  IF playlist_resp.err THEN WalkError
  ELSE
    LET sub == IF r.nextPageToken.exists THEN gatherPlaylist(resps, i + 1)
               ELSE [ids |-> <<>>, err |-> FALSE, panic |-> FALSE]
        slots == MakeStrings(r.resultsPerPage) \o sub.ids
    IN IF sub.panic THEN WalkPanic
       ELSE IF sub.err THEN WalkError
       ELSE IF Len(r.items) > Len(slots) THEN WalkPanic
       ELSE [ids |-> [k \in 1..Len(slots) |->
                        IF k <= Len(r.items) THEN r.items[k] ELSE slots[k]],
             err |-> FALSE, panic |-> FALSE]

(* ------------------------------ the plugin ----------------------------- *)

\* what the upstream answers while several goroutines call Gather: the
\* request fails, or the page lists one identifier, with or without a token
CallerPages(depth) ==
  {FailedPage} \cup
  {Served(StatusOK, FALSE, PageJson(1, <<v>>, t)) :
     v \in VideoIds,
     t \in {NoToken} \cup (IF depth < MaxPages THEN {Token(s) : s \in Tokens} ELSE {})}

\* the identifiers of a list, as a set
IdsIn(ids) == {ids[k] : k \in 1..Len(ids)}

\* a Twitter instance whose Gather has not been called
NewTwitter ==
  [pc |-> "idle", wg |-> 0, show |-> [tweets |-> <<>>, err |-> FALSE],
   acc |-> <<>>, errors |-> <<>>, ret |-> "none"]

\* the Twitter plugin is not used
TwitterIdle == twitter = NewTwitter

\* the URI settings of the sample configuration of Wordpress
SampleUris ==
  [TopPostsStatsURI |-> "/stats/top-posts", SummaryStatsURI |-> "/stats/summary",
   PostsURI |-> "/posts", TagStatsURI |-> "/stats/tags"]

\* a Wordpress instance with its URI settings, Gather not called
NewWordpress(uris) ==
  [pc |-> "idle", wg |-> 0, uris |-> uris, ran |-> <<>>, acc |-> <<>>,
   errors |-> <<>>, ret |-> "none"]

\* the Wordpress plugin is not used
WordpressIdle == wordpress = NewWordpress(SampleUris)

\* an instance of the YouTube plugin whose Gather starts a goroutine,
\* Gather not called
NewYoutubeGo == [pc |-> "idle", wg |-> 0, acc |-> <<>>, ret |-> "none"]

\* the YouTube plugin whose Gather starts a goroutine is not used
YoutubeGoIdle == youtubeGo = NewYoutubeGo

\* the GitHub plugin is not used
GithubIdle ==
  /\ ghPc = "idle"
  /\ ghWg = 0
  /\ ghReqs = <<>>
  /\ GetContributors = FALSE
  /\ ghMetrics = <<>>
  /\ ghIdx = 1
  /\ ghAcc = <<>>
  /\ ghErrors = 0
  /\ ghRet = "none"

Init ==
  /\ GithubIdle
  /\ TwitterIdle
  /\ WordpressIdle
  /\ YoutubeGoIdle
  /\ pc = "idle"
  /\ mutex = FALSE
  /\ pageToken = ""
  /\ stack = <<>>
  /\ videoIds = <<>>
  /\ walkErr = FALSE
  /\ detail = EmptyMap
  /\ idx = 1
  /\ metrics = <<>>
  /\ errors = 0
  /\ statsErr = FALSE
  /\ gatherRet = "none"
  /\ pageReqs = 0
  /\ statsReqs = 0
  /\ pageFailed = FALSE
  /\ statsLog = <<>>
  /\ earlier = FALSE
  /\ u = NewUrl
  /\ callers = [c \in Callers |-> "out"]

\* a mutant of GatherStart: Gather does not take the mutex before it
\* goes on
GatherStart_noLock ==
  /\ u' = PlaylistUrl(u, "")
  /\ statsLog' = <<>>
  /\ mutex' = TRUE
  /\ pc' = "page_req"
  /\ pageToken' = ""
  /\ pageReqs' = 1
  /\ stack' = <<>>
  /\ videoIds' = <<>>
  /\ walkErr' = FALSE
  /\ detail' = EmptyMap
  /\ idx' = 1
  /\ metrics' = <<>>
  /\ errors' = 0
  /\ statsErr' = FALSE
  /\ gatherRet' = "none"
  /\ statsReqs' = 0
  /\ pageFailed' = FALSE
  /\ UNCHANGED exceptYoutube

\* Gather is entered: Lock, then gatherPlaylist("") sends the first page
\* request. The identifier list and the error are locals of the call, the
\* accumulator of the call is empty.
GatherStart ==
  /\ ~mutex
  /\ u' = PlaylistUrl(u, "")
  /\ statsLog' = <<>>
  /\ mutex' = TRUE
  /\ pc' = "page_req"
  /\ pageToken' = ""
  /\ pageReqs' = 1
  /\ stack' = <<>>
  /\ videoIds' = <<>>
  /\ walkErr' = FALSE
  /\ detail' = EmptyMap
  /\ idx' = 1
  /\ metrics' = <<>>
  /\ errors' = 0
  /\ statsErr' = FALSE
  /\ gatherRet' = "none"
  /\ statsReqs' = 0
  /\ pageFailed' = FALSE
  /\ UNCHANGED exceptYoutube

\* the first call of Gather
GatherCall ==
  /\ pc = "idle"
  /\ callers[FirstCaller] = "out"
  /\ GatherStart
  /\ callers' = [callers EXCEPT ![FirstCaller] = "in"]
  /\ earlier' = earlier

\* a mutant of GatherAgain: the identifier list and the metrics of the
\* call before are kept, as if they were fields of the instance
GatherAgain_keepList ==
  /\ pc = "done"
  /\ ~mutex
  /\ mutex' = TRUE
  /\ pc' = "page_req"
  /\ pageToken' = ""
  /\ pageReqs' = 1
  /\ stack' = <<>>
  /\ walkErr' = FALSE
  /\ detail' = EmptyMap
  /\ idx' = 1
  /\ errors' = 0
  /\ statsErr' = FALSE
  /\ gatherRet' = "none"
  /\ statsReqs' = 0
  /\ pageFailed' = FALSE
  /\ earlier' = TRUE
  /\ u' = PlaylistUrl(u, "")
  /\ callers' = [callers EXCEPT ![FirstCaller] = "in"]
  /\ UNCHANGED <<videoIds, metrics, statsLog>>
  /\ UNCHANGED exceptYoutube

\* Gather is called again after a call has returned
GatherAgain ==
  /\ pc = "done"
  /\ callers[FirstCaller] = "out"
  /\ GatherStart
  /\ callers' = [callers EXCEPT ![FirstCaller] = "in"]
  /\ earlier' = TRUE

\* a mutant of PageResponse: the detail request of the page's first
\* identifier is sent together with the request of the next page
PageResponse_detailEarly ==
  /\ pc = "page_req"
  /\ \E resp \in PageResponses(Len(stack) + 1) :
       /\ stack' = Append(stack, resp)
       /\ pageFailed' = (pageFailed \/ ~resp.ok)
       /\ IF ~sendRequest(resp).err /\ Json(sendRequest(resp).body).nextPageToken.exists
          THEN /\ pc' = "page_req"
               /\ pageToken' = Json(sendRequest(resp).body).nextPageToken.str
               /\ pageReqs' = pageReqs + 1
               /\ statsReqs' = IF resp.json.items # <<>> THEN statsReqs + 1 ELSE statsReqs
               /\ u' = PlaylistUrl(u, pageToken')
               /\ UNCHANGED <<mutex, videoIds, walkErr, callers>>
          ELSE LET ret == gatherPlaylist(stack', 1)
               IN /\ pc' = IF ret.panic THEN "panic" ELSE "walked"
                  /\ mutex' = IF ret.panic THEN FALSE ELSE mutex
                  /\ callers' = IF ret.panic THEN Returned(callers) ELSE callers
                  /\ videoIds' = ret.ids
                  /\ walkErr' = ret.err
                  /\ UNCHANGED <<pageToken, pageReqs, statsReqs, u>>
  /\ UNCHANGED <<detail, idx, metrics, errors, statsErr, gatherRet,
                 statsLog, earlier>>
  /\ UNCHANGED exceptYoutube

\* sendRequest returns in gatherPlaylist: with a token in the page the
\* next call sends its request; without one, or on a failed request, the
\* calls return one after the other up to Gather; resps are the responses
\* the upstream can give
PageResponseFrom(resps) ==
  /\ pc = "page_req"
  /\ \E resp \in resps :
       /\ stack' = Append(stack, resp)
       /\ pageFailed' = (pageFailed \/ ~resp.ok)
       /\ IF ~sendRequest(resp).err /\ Json(sendRequest(resp).body).nextPageToken.exists
          THEN /\ pc' = "page_req"
               /\ pageToken' = Json(sendRequest(resp).body).nextPageToken.str
               /\ pageReqs' = pageReqs + 1
               /\ u' = PlaylistUrl(u, pageToken')
               /\ UNCHANGED <<mutex, videoIds, walkErr, callers>>
          ELSE LET ret == gatherPlaylist(stack', 1)
               IN /\ pc' = IF ret.panic THEN "panic" ELSE "walked"
                  /\ mutex' = IF ret.panic THEN FALSE ELSE mutex
                  /\ callers' = IF ret.panic THEN Returned(callers) ELSE callers
                  /\ videoIds' = ret.ids
                  /\ walkErr' = ret.err
                  /\ UNCHANGED <<pageToken, pageReqs, u>>
  /\ UNCHANGED <<detail, idx, metrics, errors, statsErr, gatherRet, statsReqs,
                 statsLog, earlier>>
  /\ UNCHANGED exceptYoutube

\* sendRequest returns in gatherPlaylist, the upstream answering as it likes
PageResponse == PageResponseFrom(PageResponses(Len(stack) + 1))

\* a mutant of GatherWalked: the walker's error is not returned
GatherWalked_errIgnored ==
  /\ pc = "walked"
  /\ stack' = <<>>
  /\ detail' \in CycleDetails[IdsIn(videoIds)]
  /\ IF videoIds = <<>>
     THEN /\ pc' = "stats_ret" /\ statsReqs' = statsReqs /\ statsLog' = statsLog
          /\ UNCHANGED u
     ELSE /\ pc' = "stats_req" /\ statsReqs' = 1 /\ statsLog' = <<videoIds[1]>>
          /\ u' = StatsUrl(u, videoIds[1])
  /\ UNCHANGED callers
  /\ UNCHANGED <<mutex, pageToken, videoIds, walkErr, idx, metrics, errors,
                 statsErr, gatherRet, pageReqs, pageFailed, earlier>>
  /\ UNCHANGED exceptYoutube

\* Gather after gatherPlaylist returned: an error is returned as it is
\* (the deferred Unlock runs); otherwise gatherVideoStatistics starts and
\* sends the detail request of the first identifier, if there is one
GatherWalked ==
  /\ pc = "walked"
  /\ stack' = <<>>
  /\ IF walkErr
     THEN /\ pc' = "done"
          /\ gatherRet' = "err"
          /\ mutex' = FALSE
          /\ callers' = Returned(callers)
          /\ UNCHANGED <<detail, statsReqs, statsLog, u>>
     ELSE /\ detail' \in CycleDetails[IdsIn(videoIds)]
          /\ IF videoIds = <<>>
             THEN /\ pc' = "stats_ret" /\ statsReqs' = statsReqs
                  /\ statsLog' = statsLog
                  /\ UNCHANGED u
             ELSE /\ pc' = "stats_req" /\ statsReqs' = 1
                  /\ statsLog' = <<videoIds[1]>>
                  /\ u' = StatsUrl(u, videoIds[1])
          /\ UNCHANGED <<gatherRet, mutex, callers>>
  /\ UNCHANGED <<pageToken, videoIds, walkErr, idx, metrics, errors, statsErr,
                 pageReqs, pageFailed, earlier>>
  /\ UNCHANGED exceptYoutube

\* the metric gatherVideoStatistics adds for videoId
Metric(videoId, fields) ==
  [name |-> "youtube", tags |-> [videoId |-> videoId], fields |-> fields]

\* a mutant of AddIfFields: without the len(fields) > 0 test
AddIfFields_always(acc, videoId, fields) ==
  Append(acc, Metric(videoId, fields))

\* the accumulator after the body of the loop: AddFields only when the
\* field map is not empty (metric.New does not fail for the name "youtube"
\* and a non-empty field map)
AddIfFields(acc, videoId, fields) ==
  IF Cardinality(DOMAIN fields) > 0
  THEN Append(acc, Metric(videoId, fields))
  ELSE acc

\* a mutant of StatsResponse: a failed detail request skips the
\* identifier instead of returning
StatsResponse_skipFailed ==
  /\ pc = "stats_req"
  /\ LET videoId == videoIds[idx]
         stats_resp == sendRequest(detail[videoId])
     IN /\ metrics' = IF ~stats_resp.err
                      THEN AddIfFields(metrics, videoId,
                                       extractAllStats(Json(stats_resp.body), videoId))
                      ELSE metrics
        /\ idx' = idx + 1
        /\ statsErr' = (statsErr \/ stats_resp.err)
        /\ IF idx = Len(videoIds)
           THEN /\ pc' = "stats_ret" /\ statsReqs' = statsReqs /\ statsLog' = statsLog
                /\ UNCHANGED u
           ELSE /\ pc' = "stats_req" /\ statsReqs' = statsReqs + 1
                /\ statsLog' = Append(statsLog, videoIds[idx + 1])
                /\ u' = StatsUrl(u, videoIds[idx + 1])
  /\ UNCHANGED <<mutex, pageToken, stack, videoIds, walkErr, detail, errors,
                 gatherRet, pageReqs, pageFailed, earlier, callers>>
  /\ UNCHANGED exceptYoutube

\* a mutant of StatsResponse: a failed detail request is sent once more
\* before the error is returned
StatsResponse_retryOnce ==
  /\ pc = "stats_req"
  /\ LET videoId == videoIds[idx]
         stats_resp == sendRequest(detail[videoId])
     IN IF stats_resp.err
        THEN IF Len(statsLog) = idx
             THEN /\ statsLog' = Append(statsLog, videoId)
                  /\ statsReqs' = statsReqs + 1
                  /\ UNCHANGED <<pc, metrics, idx, statsErr, u>>
             ELSE /\ statsErr' = TRUE
                  /\ pc' = "stats_ret"
                  /\ UNCHANGED <<metrics, idx, statsReqs, statsLog, u>>
        ELSE /\ metrics' = AddIfFields(metrics, videoId,
                                       extractAllStats(Json(stats_resp.body), videoId))
             /\ idx' = idx + 1
             /\ statsErr' = FALSE
             /\ IF idx = Len(videoIds)
                THEN /\ pc' = "stats_ret" /\ statsReqs' = statsReqs
                     /\ statsLog' = statsLog
                     /\ UNCHANGED u
                ELSE /\ pc' = "stats_req" /\ statsReqs' = statsReqs + 1
                     /\ statsLog' = Append(statsLog, videoIds[idx + 1])
                     /\ u' = StatsUrl(u, videoIds[idx + 1])
  /\ UNCHANGED <<mutex, pageToken, stack, videoIds, walkErr, detail, errors,
                 gatherRet, pageReqs, pageFailed, earlier, callers>>
  /\ UNCHANGED exceptYoutube

\* sendRequest returns in the loop of gatherVideoStatistics: a failed
\* request returns the error at once; otherwise the fields are extracted,
\* the metric is added, and the next identifier's request is sent
StatsResponse ==
  /\ pc = "stats_req"
  /\ LET videoId == videoIds[idx]
         stats_resp == sendRequest(detail[videoId])
     IN IF stats_resp.err
        THEN /\ statsErr' = TRUE
             /\ pc' = "stats_ret"
             /\ UNCHANGED <<metrics, idx, statsReqs, statsLog, u>>
        ELSE /\ metrics' = AddIfFields(metrics, videoId,
                                       extractAllStats(Json(stats_resp.body), videoId))
             /\ idx' = idx + 1
             /\ statsErr' = FALSE
             /\ IF idx = Len(videoIds)
                THEN /\ pc' = "stats_ret" /\ statsReqs' = statsReqs
                     /\ statsLog' = statsLog
                     /\ UNCHANGED u
                ELSE /\ pc' = "stats_req" /\ statsReqs' = statsReqs + 1
                     /\ statsLog' = Append(statsLog, videoIds[idx + 1])
                     /\ u' = StatsUrl(u, videoIds[idx + 1])
  /\ UNCHANGED <<mutex, pageToken, stack, videoIds, walkErr, detail, errors,
                 gatherRet, pageReqs, pageFailed, earlier, callers>>
  /\ UNCHANGED exceptYoutube

\* a mutant of GatherReturn: the error of gatherVideoStatistics is
\* returned by Gather instead of being handed to AddError
GatherReturn_errReturned ==
  /\ pc = "stats_ret"
  /\ mutex
  /\ gatherRet' = IF statsErr THEN "err" ELSE "nil"
  /\ mutex' = FALSE
  /\ callers' = Returned(callers)
  /\ pc' = "done"
  /\ UNCHANGED u
  /\ UNCHANGED <<pageToken, stack, videoIds, walkErr, detail, idx, metrics,
                 errors, statsErr, pageReqs, statsReqs, pageFailed, statsLog,
                 earlier>>
  /\ UNCHANGED exceptYoutube

\* Gather after gatherVideoStatistics returned: AddError records a
\* non-nil error, Gather returns nil and the deferred Unlock runs
GatherReturn ==
  /\ pc = "stats_ret"
  /\ mutex
  /\ errors' = IF statsErr THEN errors + 1 ELSE errors
  /\ gatherRet' = "nil"
  /\ mutex' = FALSE
  /\ callers' = Returned(callers)
  /\ pc' = "done"
  /\ UNCHANGED u
  /\ UNCHANGED <<pageToken, stack, videoIds, walkErr, detail, idx, metrics,
                 statsErr, pageReqs, statsReqs, pageFailed, statsLog, earlier>>
  /\ UNCHANGED exceptYoutube

Next == GatherCall \/ PageResponse \/ GatherWalked \/ StatsResponse \/ GatherReturn

Spec == Init /\ [][Next]_vars

\* one call of Gather after the other on the same instance
NextCycles == Next \/ GatherAgain

SpecCycles == Init /\ [][NextCycles]_vars

(* ------------------- Gather called by several goroutines --------------- *)

\* the goroutine c calls Gather and arrives at y.Lock()
GatherEnter(c) ==
  /\ callers[c] = "out"
  /\ callers' = [callers EXCEPT ![c] = "lock"]
  /\ UNCHANGED <<pc, mutex, pageToken, stack, videoIds, walkErr, detail, idx,
                 metrics, errors, statsErr, gatherRet, pageReqs, statsReqs,
                 pageFailed, statsLog, earlier, u>>
  /\ UNCHANGED exceptYoutube

\* y.Lock() returns for the goroutine c, which goes on into Gather
GatherLock(c) ==
  /\ callers[c] = "lock"
  /\ GatherStart
  /\ callers' = [callers EXCEPT ![c] = "in"]
  /\ earlier' = (earlier \/ pc \in {"done", "panic"})

NextCallers ==
  \/ \E c \in Callers : GatherEnter(c)
  \/ \E c \in Callers : GatherLock(c)
  \/ PageResponseFrom(CallerPages(Len(stack) + 1))
  \/ GatherWalked
  \/ StatsResponse
  \/ GatherReturn

SpecCallers == Init /\ [][NextCallers]_vars

(* ------------- gatherVideoStatistics called on its own ----------------- *)

\* as TestYouTubeGatherVideoStats does: a list of identifiers and the
\* documents of the videos endpoint are given, the accumulator is empty
InitStats ==
  /\ GithubIdle
  /\ TwitterIdle
  /\ WordpressIdle
  /\ YoutubeGoIdle
  /\ pc = "stats_req"
  /\ mutex = FALSE
  /\ pageToken = ""
  /\ stack = <<>>
  /\ videoIds \in SeqsUpTo(VideoIds, MaxIds) \ {<<>>}
  /\ walkErr = FALSE
  /\ detail \in Details(IdsIn(videoIds), RichDocs)
  /\ idx = 1
  /\ metrics = <<>>
  /\ errors = 0
  /\ statsErr = FALSE
  /\ gatherRet = "none"
  /\ pageReqs = 0
  /\ statsReqs = 1
  /\ pageFailed = FALSE
  /\ statsLog = <<videoIds[1]>>
  /\ earlier = FALSE
  /\ u = StatsUrl(NewUrl, videoIds[1])
  /\ callers = [c \in Callers |-> "out"]

NextStats == StatsResponse

SpecStats == InitStats /\ [][NextStats]_vars

(* ------------------------- the GitHub input plugin --------------------- *)

\* full names and ids the listing gives to repositories
RepoNames == {"org/x", "org/y"}
RepoIds == {"1", "2"}

NoTags == [k \in {} |-> ""]

\* a mutant of AddTag: a tag the metric already has keeps its value
AddTag_keepOwn(tags, key, value) ==
  [k \in DOMAIN tags \cup {key} |-> IF k \in DOMAIN tags THEN tags[k] ELSE value]

\* metric.AddTag: the tag is set, a value it had is replaced
AddTag(tags, key, value) ==
  [k \in DOMAIN tags \cup {key} |-> IF k = key THEN value ELSE tags[k]]

HasTag(tags, key) == key \in DOMAIN tags

\* a metric as the JSON parser returns it
ParsedMetric(name, tags, fields) == [name |-> name, tags |-> tags, fields |-> fields]

\* the metrics the parser makes of the repositories of a listing: the
\* tags id and full_name are there or not, as tag_keys and the document
\* have them
RepoMetrics ==
  {ParsedMetric("github", t, [forks |-> 8]) :
     t \in {NoTags, [id |-> "1"], [full_name |-> "org/x"],
            [id |-> "1", full_name |-> "org/x"],
            [id |-> "2", full_name |-> "org/y"]}}

\* the metrics the parser makes of the contributors of a repository: with
\* the tag login, and with tags repo and repo_id of their own when
\* tag_keys names them and the document has such keys
ContributorMetrics ==
  {ParsedMetric("github_contributors", t, [contributions |-> 4]) :
     t \in {[login |-> "akutz"],
            [login |-> "akutz", repo |-> "stale", repo_id |-> "0"]}}

\* what MakeRequest gives: ok is FALSE for a transport error; otherwise a
\* status code and a body, which is a JSON document the parser accepts
\* (with the metrics it makes of it) or not
GithubFailed == [ok |-> FALSE, status |-> 0, valid |-> FALSE, metrics |-> <<>>]
GithubServed(status, valid, ms) ==
  [ok |-> TRUE, status |-> status, valid |-> valid, metrics |-> ms]

GithubResponses(parsed, n) ==
  {GithubFailed, GithubServed(StatusNotFound, TRUE, <<>>),
   GithubServed(StatusOK, FALSE, <<>>)} \cup
  {GithubServed(StatusOK, TRUE, ms) : ms \in SeqsUpTo(parsed, n)}

\* Github.sendRequest: an error when MakeRequest failed or the status is
\* not 200, else the body
Github_sendRequest(resp) ==
  [body |-> [valid |-> resp.valid, metrics |-> resp.metrics],
   err |-> (~resp.ok \/ resp.status # StatusOK)]

\* parser.Parse: an error for a document that is not valid, else its metrics
Parse(body) == [metrics |-> body.metrics, err |-> ~body.valid]

\* what a call that sends a request and parses the answer gets: the
\* metrics, or an error from sendRequest or from Parse
Fetched(resp) ==
  LET sent == Github_sendRequest(resp)
  IN IF sent.err THEN [metrics |-> <<>>, err |-> TRUE] ELSE Parse(sent.body)

\* an AddFields call; of is history: the position in the listing of the
\* repository whose contributors request produced the metric, 0 for a
\* repository metric
Added(name, tags, fields, of) ==
  [name |-> name, tags |-> tags, fields |-> fields, of |-> of]

\* full_name and id of a repository metric, as the loop over its tags
\* finds them
repo_name(m) == m.tags.full_name
repo_id(m) == m.tags.id

\* the AddFields calls of gatherRepoContributors for the parsed metrics
\* ms: every metric gets the tags repo and repo_id
ContributorsAdded(ms, name, id, of) ==
  [k \in 1..Len(ms) |->
     Added(ms[k].name, AddTag(AddTag(ms[k].tags, "repo", name), "repo_id", id),
           ms[k].fields, of)]

\* a request answered: of is the position in the listing of the
\* repository whose contributors were asked for, 0 for the listing itself
Answered(of, err) == [of |-> of, err |-> err]

\* Gather is called (on a new instance, or after the call before has
\* returned): wg.Add(1), and the goroutine starts gatherTopStats, which
\* sends the listing request; the accumulator of the call is empty
Github_Gather ==
  /\ ghPc = "idle" \/ (ghPc = "done" /\ ghRet = "nil")
  /\ ghPc' = "top_req"
  /\ ghWg' = 1
  /\ ghReqs' = <<>>
  /\ ghMetrics' = <<>>
  /\ ghIdx' = 1
  /\ ghAcc' = <<>>
  /\ ghErrors' = 0
  /\ ghRet' = "none"
  /\ UNCHANGED GetContributors
  /\ UNCHANGED exceptGithub

\* sendRequest returns in gatherTopStats: an error of the request or of
\* the parser is returned and handed to AddError by the goroutine, which
\* ends with the deferred wg.Done(); otherwise the loop over the metrics
\* starts
gatherTopStats ==
  /\ ghPc = "top_req"
  /\ \E resp \in GithubResponses(RepoMetrics, MaxRepos) :
       LET got == Fetched(resp)
       IN /\ ghReqs' = Append(ghReqs, Answered(0, got.err))
          /\ IF got.err
             THEN /\ ghErrors' = ghErrors + 1
                  /\ ghPc' = "done"
                  /\ ghWg' = ghWg - 1
                  /\ UNCHANGED ghMetrics
             ELSE /\ ghMetrics' = got.metrics
                  /\ ghPc' = "loop"
                  /\ UNCHANGED <<ghErrors, ghWg>>
  /\ UNCHANGED <<GetContributors, ghIdx, ghAcc, ghRet>>
  /\ UNCHANGED exceptGithub

\* one pass of the loop of gatherTopStats up to its request: the
\* repository metric is added; with get_contributors set and both tags on
\* the metric gatherRepoContributors sends its request, otherwise the loop
\* goes on
TopStatsPass ==
  /\ ghPc = "loop"
  /\ ghIdx <= Len(ghMetrics)
  /\ LET metric == ghMetrics[ghIdx]
     IN /\ ghAcc' = Append(ghAcc, Added(metric.name, metric.tags, metric.fields, 0))
        /\ IF GetContributors /\ HasTag(metric.tags, "full_name") /\ HasTag(metric.tags, "id")
           THEN ghPc' = "contrib_req" /\ ghIdx' = ghIdx
           ELSE ghPc' = "loop" /\ ghIdx' = ghIdx + 1
  /\ UNCHANGED <<GetContributors, ghMetrics, ghErrors, ghRet, ghWg, ghReqs>>
  /\ UNCHANGED exceptGithub

\* a mutant of gatherRepoContributors: its error makes gatherTopStats
\* return instead of going on with the next repository
gatherRepoContributors_stops ==
  /\ ghPc = "contrib_req"
  /\ \E resp \in GithubResponses(ContributorMetrics, MaxContributors) :
       LET got == Fetched(resp)
           metric == ghMetrics[ghIdx]
       IN /\ ghReqs' = Append(ghReqs, Answered(ghIdx, got.err))
          /\ IF got.err
             THEN /\ ghErrors' = ghErrors + 1
                  /\ ghPc' = "done"
                  /\ ghWg' = ghWg - 1
                  /\ UNCHANGED <<ghAcc, ghIdx>>
             ELSE /\ ghAcc' = ghAcc \o ContributorsAdded(got.metrics, repo_name(metric),
                                                        repo_id(metric), ghIdx)
                  /\ ghIdx' = ghIdx + 1
                  /\ ghPc' = "loop"
                  /\ UNCHANGED <<ghErrors, ghWg>>
  /\ UNCHANGED <<GetContributors, ghMetrics, ghRet>>
  /\ UNCHANGED exceptGithub

\* sendRequest returns in gatherRepoContributors: an error of the request
\* or of the parser is returned and handed to AddError by gatherTopStats;
\* otherwise every parsed metric is added with the tags repo and repo_id.
\* The loop of gatherTopStats goes on with the next repository.
gatherRepoContributors ==
  /\ ghPc = "contrib_req"
  /\ \E resp \in GithubResponses(ContributorMetrics, MaxContributors) :
       LET got == Fetched(resp)
           metric == ghMetrics[ghIdx]
       IN /\ ghReqs' = Append(ghReqs, Answered(ghIdx, got.err))
          /\ IF got.err
             THEN /\ ghErrors' = ghErrors + 1
                  /\ UNCHANGED ghAcc
             ELSE /\ ghAcc' = ghAcc \o ContributorsAdded(got.metrics, repo_name(metric),
                                                        repo_id(metric), ghIdx)
                  /\ UNCHANGED ghErrors
  /\ ghIdx' = ghIdx + 1
  /\ ghPc' = "loop"
  /\ UNCHANGED <<GetContributors, ghMetrics, ghRet, ghWg>>
  /\ UNCHANGED exceptGithub

\* the loop of gatherTopStats is over: it returns nil and the goroutine
\* ends with the deferred wg.Done()
TopStatsReturn ==
  /\ ghPc = "loop"
  /\ ghIdx > Len(ghMetrics)
  /\ ghPc' = "done"
  /\ ghWg' = ghWg - 1
  /\ UNCHANGED <<GetContributors, ghMetrics, ghIdx, ghAcc, ghErrors, ghRet, ghReqs>>
  /\ UNCHANGED exceptGithub

\* a mutant of Github_Wait: Gather returns without waiting for the
\* goroutine
Github_Wait_noWait ==
  /\ ghPc # "idle"
  /\ ghRet = "none"
  /\ ghRet' = "nil"
  /\ UNCHANGED <<ghPc, ghWg, ghReqs, GetContributors, ghMetrics, ghIdx, ghAcc, ghErrors>>
  /\ UNCHANGED exceptGithub

\* wg.Wait() returns in Gather, which returns nil
Github_Wait ==
  /\ ghPc # "idle"
  /\ ghRet = "none"
  /\ ghWg = 0
  /\ ghRet' = "nil"
  /\ UNCHANGED <<ghPc, ghWg, ghReqs, GetContributors, ghMetrics, ghIdx, ghAcc, ghErrors>>
  /\ UNCHANGED exceptGithub

\* a GitHub instance with get_contributors set or not; the YouTube plugin
\* is not used
InitGithub ==
  /\ TwitterIdle
  /\ WordpressIdle
  /\ YoutubeGoIdle
  /\ ghPc = "idle"
  /\ ghWg = 0
  /\ ghReqs = <<>>
  /\ GetContributors \in BOOLEAN
  /\ ghMetrics = <<>>
  /\ ghIdx = 1
  /\ ghAcc = <<>>
  /\ ghErrors = 0
  /\ ghRet = "none"
  /\ pc = "idle"
  /\ mutex = FALSE
  /\ pageToken = ""
  /\ stack = <<>>
  /\ videoIds = <<>>
  /\ walkErr = FALSE
  /\ detail = EmptyMap
  /\ idx = 1
  /\ metrics = <<>>
  /\ errors = 0
  /\ statsErr = FALSE
  /\ gatherRet = "none"
  /\ pageReqs = 0
  /\ statsReqs = 0
  /\ pageFailed = FALSE
  /\ statsLog = <<>>
  /\ earlier = FALSE
  /\ u = NewUrl
  /\ callers = [c \in Callers |-> "out"]

NextGithub ==
  \/ Github_Gather
  \/ gatherTopStats
  \/ TopStatsPass
  \/ gatherRepoContributors
  \/ TopStatsReturn
  \/ Github_Wait

SpecGithub == InitGithub /\ [][NextGithub]_vars

(* ------------------------- the Twitter input plugin -------------------- *)

\* the retweet counts of the tweets of a timeline
RetweetCounts == {0, 3, 5, 8}

\* what client.TimelineShow can return: tweets, and an error or none. The
\* client is an interface: tweets and error are not tied to each other
TimelineShows ==
  [tweets : SeqsUpTo([retweet_count : RetweetCounts], MaxTweets), err : BOOLEAN]

\* the metrics the parser makes of the marshalled tweets, one per tweet
TweetMetrics(tweets) ==
  [k \in 1..Len(tweets) |->
     ParsedMetric("twitter", NoTags, [retweet_count |-> tweets[k].retweet_count])]

\* the return of gatherTimeline and its AddFields calls, for what
\* TimelineShow returned and whether the parser accepts the marshalled
\* tweets: the error of TimelineShow is logged and dropped, the error of
\* the parser is returned, and every parsed metric is added
gatherTimeline(show, valid) ==
  LET parsed == Parse([valid |-> valid, metrics |-> TweetMetrics(show.tweets)])
  IN IF parsed.err THEN [err |-> "parse", added |-> <<>>]
     ELSE [err |-> "nil", added |-> parsed.metrics]

\* Gather is called (on a new instance, or after the call before has
\* returned): wg.Add(1), and the goroutine starts gatherTimeline, which
\* calls TimelineShow; the accumulator of the call is empty
Twitter_Gather ==
  /\ twitter.pc = "idle" \/ (twitter.pc = "done" /\ twitter.ret = "nil")
  /\ twitter' = [NewTwitter EXCEPT !.pc = "timeline", !.wg = 1]
  /\ UNCHANGED exceptTwitter

\* TimelineShow returns in gatherTimeline, which runs to its end; the
\* goroutine hands its error to AddError and ends with the deferred
\* wg.Done()
Twitter_gatherTimeline ==
  /\ twitter.pc = "timeline"
  /\ \E show \in TimelineShows, valid \in BOOLEAN :
       LET got == gatherTimeline(show, valid)
       IN twitter' = [twitter EXCEPT
                        !.show = show,
                        !.acc = got.added,
                        !.errors = IF got.err = "nil" THEN <<>> ELSE <<got.err>>,
                        !.pc = "done",
                        !.wg = twitter.wg - 1]
  /\ UNCHANGED exceptTwitter

\* wg.Wait() returns in Gather, which returns nil
Twitter_Wait ==
  /\ twitter.pc # "idle"
  /\ twitter.ret = "none"
  /\ twitter.wg = 0
  /\ twitter' = [twitter EXCEPT !.ret = "nil"]
  /\ UNCHANGED exceptTwitter

\* a Twitter instance; the other plugins are not used
InitTwitter ==
  /\ TwitterIdle
  /\ WordpressIdle
  /\ YoutubeGoIdle
  /\ GithubIdle
  /\ pc = "idle"
  /\ mutex = FALSE
  /\ pageToken = ""
  /\ stack = <<>>
  /\ videoIds = <<>>
  /\ walkErr = FALSE
  /\ detail = EmptyMap
  /\ idx = 1
  /\ metrics = <<>>
  /\ errors = 0
  /\ statsErr = FALSE
  /\ gatherRet = "none"
  /\ pageReqs = 0
  /\ statsReqs = 0
  /\ pageFailed = FALSE
  /\ statsLog = <<>>
  /\ earlier = FALSE
  /\ u = NewUrl
  /\ callers = [c \in Callers |-> "out"]

NextTwitter == Twitter_Gather \/ Twitter_gatherTimeline \/ Twitter_Wait

SpecTwitter == InitTwitter /\ [][NextTwitter]_vars

(* ------------------------ the Wordpress input plugin ------------------- *)

\* the URI settings in the order in which the goroutine of Gather tests them
Gatherers == <<"TopPostsStatsURI", "SummaryStatsURI", "PostsURI", "TagStatsURI">>

\* the URI settings an instance can have: each one empty or not
WordpressUris ==
  [TopPostsStatsURI : {"", SampleUris.TopPostsStatsURI},
   SummaryStatsURI : {"", SampleUris.SummaryStatsURI},
   PostsURI : {"", SampleUris.PostsURI},
   TagStatsURI : {"", SampleUris.TagStatsURI}]

\* what MakeRequest gives for the request of a gatherer, the parser
\* making metrics of the measurement msrmnt_name of a valid body
WordpressResponses(msrmnt_name) ==
  GithubResponses({ParsedMetric(msrmnt_name, NoTags, [views |-> 7])}, MaxPosts)

\* Wordpress.sendRequest: an error when MakeRequest failed or the status
\* is not 200, else the body
Wordpress_sendRequest(resp) ==
  [body |-> [valid |-> resp.valid, metrics |-> resp.metrics],
   err |-> (~resp.ok \/ resp.status # StatusOK)]

\* the return of a gatherer and its AddFields calls: the error of
\* sendRequest or of the parser is returned, else every parsed metric is
\* added
Gathered(resp) ==
  LET sent == Wordpress_sendRequest(resp)
      parsed == Parse(sent.body)
  IN IF sent.err \/ parsed.err THEN [err |-> TRUE, added |-> <<>>]
     ELSE [err |-> FALSE, added |-> parsed.metrics]

gatherTopPostsStats(resp) == Gathered(resp)
gatherSummaryStats(resp) == Gathered(resp)
gatherPosts(resp) == Gathered(resp)
gatherTagStats(resp) == Gathered(resp)

\* Gather is called (on a new instance, or after the call before has
\* returned): wg.Add(1), and the goroutine starts; the accumulator of the
\* call is empty
Wordpress_Gather ==
  /\ wordpress.pc = "idle" \/ (wordpress.pc = "done" /\ wordpress.ret = "nil")
  /\ wordpress' = [NewWordpress(wordpress.uris) EXCEPT !.pc = "TopPostsStatsURI", !.wg = 1]
  /\ UNCHANGED exceptWordpress

\* a mutant of Ran: an error of the gatherer ends the goroutine's work
Ran_stops(w, uri, got, next) ==
  [w EXCEPT !.ran = Append(w.ran, [uri |-> uri, err |-> got.err]),
            !.acc = w.acc \o got.added,
            !.errors = IF got.err THEN Append(w.errors, uri) ELSE w.errors,
            !.pc = IF got.err THEN "end" ELSE next]

\* the instance after the goroutine has run the gatherer of a URI setting
\* and handed its return to AddError: ran is history, errors holds the
\* non-nil AddError calls, and the goroutine goes on with the next test
Ran(w, uri, got, next) ==
  [w EXCEPT !.ran = Append(w.ran, [uri |-> uri, err |-> got.err]),
            !.acc = w.acc \o got.added,
            !.errors = IF got.err THEN Append(w.errors, uri) ELSE w.errors,
            !.pc = next]

\* if w.TopPostsStatsURI != "" { acc.AddError(w.gatherTopPostsStats(acc)) }
Wordpress_TopPostsStats ==
  /\ wordpress.pc = "TopPostsStatsURI"
  /\ IF wordpress.uris.TopPostsStatsURI # ""
     THEN \E resp \in WordpressResponses("wordpress_topposts") :
            wordpress' = Ran(wordpress, "TopPostsStatsURI",
                             gatherTopPostsStats(resp), "SummaryStatsURI")
     ELSE wordpress' = [wordpress EXCEPT !.pc = "SummaryStatsURI"]
  /\ UNCHANGED exceptWordpress

\* if w.SummaryStatsURI != "" { acc.AddError(w.gatherSummaryStats(acc)) }
Wordpress_SummaryStats ==
  /\ wordpress.pc = "SummaryStatsURI"
  /\ IF wordpress.uris.SummaryStatsURI # ""
     THEN \E resp \in WordpressResponses("wordpress_summary") :
            wordpress' = Ran(wordpress, "SummaryStatsURI",
                             gatherSummaryStats(resp), "PostsURI")
     ELSE wordpress' = [wordpress EXCEPT !.pc = "PostsURI"]
  /\ UNCHANGED exceptWordpress

\* if w.PostsURI != "" { acc.AddError(w.gatherPosts(acc)) }
Wordpress_Posts ==
  /\ wordpress.pc = "PostsURI"
  /\ IF wordpress.uris.PostsURI # ""
     THEN \E resp \in WordpressResponses("wordpress_posts") :
            wordpress' = Ran(wordpress, "PostsURI", gatherPosts(resp), "TagStatsURI")
     ELSE wordpress' = [wordpress EXCEPT !.pc = "TagStatsURI"]
  /\ UNCHANGED exceptWordpress

\* if w.TagStatsURI != "" { acc.AddError(w.gatherTagStats(acc)) }
Wordpress_TagStats ==
  /\ wordpress.pc = "TagStatsURI"
  /\ IF wordpress.uris.TagStatsURI # ""
     THEN \E resp \in WordpressResponses("wordpress_tagstats") :
            wordpress' = Ran(wordpress, "TagStatsURI", gatherTagStats(resp), "end")
     ELSE wordpress' = [wordpress EXCEPT !.pc = "end"]
  /\ UNCHANGED exceptWordpress

\* the goroutine ends: the deferred wg.Done()
Wordpress_Done ==
  /\ wordpress.pc = "end"
  /\ wordpress' = [wordpress EXCEPT !.pc = "done", !.wg = wordpress.wg - 1]
  /\ UNCHANGED exceptWordpress

\* wg.Wait() returns in Gather, which returns nil
Wordpress_Wait ==
  /\ wordpress.pc # "idle"
  /\ wordpress.ret = "none"
  /\ wordpress.wg = 0
  /\ wordpress' = [wordpress EXCEPT !.ret = "nil"]
  /\ UNCHANGED exceptWordpress

\* the YouTube plugin with the mutex is not used
YoutubeIdle ==
  /\ pc = "idle"
  /\ mutex = FALSE
  /\ pageToken = ""
  /\ stack = <<>>
  /\ videoIds = <<>>
  /\ walkErr = FALSE
  /\ detail = EmptyMap
  /\ idx = 1
  /\ metrics = <<>>
  /\ errors = 0
  /\ statsErr = FALSE
  /\ gatherRet = "none"
  /\ pageReqs = 0
  /\ statsReqs = 0
  /\ pageFailed = FALSE
  /\ statsLog = <<>>
  /\ earlier = FALSE
  /\ u = NewUrl
  /\ callers = [c \in Callers |-> "out"]

\* a Wordpress instance with any URI settings; the other plugins are not
\* used
InitWordpress ==
  /\ \E uris \in WordpressUris : wordpress = NewWordpress(uris)
  /\ YoutubeIdle
  /\ GithubIdle
  /\ TwitterIdle
  /\ YoutubeGoIdle

NextWordpress ==
  \/ Wordpress_Gather
  \/ Wordpress_TopPostsStats
  \/ Wordpress_SummaryStats
  \/ Wordpress_Posts
  \/ Wordpress_TagStats
  \/ Wordpress_Done
  \/ Wordpress_Wait

SpecWordpress == InitWordpress /\ [][NextWordpress]_vars

(* ------------------- the YouTube plugin with a goroutine --------------- *)

\* the accumulator calls gatherPlaylist makes: AddFields for a video,
\* AddError with the error of the call for the next page
PlaylistCalls == {"AddFields", "AddError"}

\* Gather is called (on a new instance, or after the call before has
\* returned): wg.Add(1), and the goroutine starts gatherPlaylist; the
\* accumulator of the call is empty
YoutubeGo_Gather ==
  /\ youtubeGo.pc = "idle" \/ (youtubeGo.pc = "done" /\ youtubeGo.ret = "nil")
  /\ youtubeGo' = [NewYoutubeGo EXCEPT !.pc = "playlist", !.wg = 1]
  /\ UNCHANGED exceptYoutubeGo

\* gatherPlaylist, running in the goroutine, calls the accumulator
YoutubeGo_gatherPlaylist ==
  /\ youtubeGo.pc = "playlist"
  /\ Len(youtubeGo.acc) < MaxCalls
  /\ \E call \in PlaylistCalls :
       youtubeGo' = [youtubeGo EXCEPT !.acc = Append(youtubeGo.acc, call)]
  /\ UNCHANGED exceptYoutubeGo

\* gatherPlaylist returns, with an error or nil: the goroutine hands it to
\* AddError and ends with the deferred wg.Done()
YoutubeGo_Done ==
  /\ youtubeGo.pc = "playlist"
  /\ \E err \in BOOLEAN :
       youtubeGo' = [youtubeGo EXCEPT
                       !.acc = IF err THEN Append(youtubeGo.acc, "AddError")
                               ELSE youtubeGo.acc,
                       !.pc = "done",
                       !.wg = youtubeGo.wg - 1]
  /\ UNCHANGED exceptYoutubeGo

\* wg.Wait() returns in Gather, which returns nil
YoutubeGo_Wait ==
  /\ youtubeGo.pc # "idle"
  /\ youtubeGo.ret = "none"
  /\ youtubeGo.wg = 0
  /\ youtubeGo' = [youtubeGo EXCEPT !.ret = "nil"]
  /\ UNCHANGED exceptYoutubeGo

NextYoutubeGo ==
  \/ YoutubeGo_Gather
  \/ YoutubeGo_gatherPlaylist
  \/ YoutubeGo_Done
  \/ YoutubeGo_Wait

(* ------------------- the inputs whose Gather starts a goroutine -------- *)

\* instances of the four inputs, Gather not called: GitHub with
\* get_contributors set or not, Wordpress with any URI settings
InitGoroutines ==
  /\ YoutubeIdle
  /\ ghPc = "idle"
  /\ ghWg = 0
  /\ ghReqs = <<>>
  /\ GetContributors \in BOOLEAN
  /\ ghMetrics = <<>>
  /\ ghIdx = 1
  /\ ghAcc = <<>>
  /\ ghErrors = 0
  /\ ghRet = "none"
  /\ TwitterIdle
  /\ \E uris \in WordpressUris : wordpress = NewWordpress(uris)
  /\ YoutubeGoIdle

\* the inputs share no state; the configuration enables one of them, and
\* Gather of the others is never called
NextGoroutines ==
  \/ twitter.pc = "idle" /\ wordpress.pc = "idle" /\ youtubeGo.pc = "idle" /\ NextGithub
  \/ ghPc = "idle" /\ wordpress.pc = "idle" /\ youtubeGo.pc = "idle" /\ NextTwitter
  \/ ghPc = "idle" /\ twitter.pc = "idle" /\ youtubeGo.pc = "idle" /\ NextWordpress
  \/ ghPc = "idle" /\ twitter.pc = "idle" /\ wordpress.pc = "idle" /\ NextYoutubeGo

SpecGoroutines == InitGoroutines /\ [][NextGoroutines]_vars

(* ------------------------------ properties ----------------------------- *)

\* the identifiers listed in the items of the pages of a walk
ListedIds(pages) == UNION {IdsIn(pages[i].json.items) : i \in 1..Len(pages)}

\* every page of the walk was served
AllServed(pages) == \A i \in 1..Len(pages) : pages[i].ok

\* C1: for a chain of n served pages, gatherPlaylist("") sends exactly n
\* page requests and returns exactly the identifiers listed in the pages'
\* items (none missing, no other value such as ""), whatever
\* resultsPerPage says
ClaimC1 ==
  /\ pc # "panic"
  /\ (pc = "walked" /\ AllServed(stack)) =>
       /\ pageReqs = Len(stack)
       /\ ~walkErr
       /\ IdsIn(videoIds) = ListedIds(stack)

\* C2: when a page request fails at any depth, gatherPlaylist returns an
\* error and no identifier list, whatever the pages before it listed
ThmC2 ==
  (\E i \in 1..Len(stack) : ~stack[i].ok) =>
     (pc = "walked" /\ walkErr /\ videoIds = <<>>)

\* the second page request failed after a first page that listed
\* identifiers
WitC2 ==
  /\ pc = "walked"
  /\ Len(stack) = 2
  /\ stack[1].ok /\ stack[1].json.items # <<>> /\ stack[1].json.resultsPerPage > 0
  /\ ~stack[2].ok

\* C3: when a page request of a cycle failed, the cycle sends no detail
\* request, adds no metric, and Gather returns the error
ThmC3 ==
  pageFailed =>
     /\ statsReqs = 0
     /\ metrics = <<>>
     /\ pc \in {"walked", "done"}
     /\ (pc = "done" => gatherRet = "err")

\* a cycle ended after its second page request failed
WitC3 == pc = "done" /\ pageFailed /\ pageReqs = 2 /\ gatherRet = "err"

\* the statistics value of the item of v in the document served for v
StatsOf(v) == FirstItem(detail[v].json.items, v, 1).statistics

\* the keys of StatKeys the statistics object of v holds
PresentKeys(v) ==
  IF StatsOf(v).type = "JSON" THEN StatKeys \cap DOMAIN StatsOf(v).members ELSE {}

\* the document served for v has a statistics value that is not empty
HasStatistics(v) == detail[v].ok /\ ForEachCalls(StatsOf(v)) > 0

\* the videoId tags of the metrics, in the order they were added
TagsOf(ms) == [k \in 1..Len(ms) |-> ms[k].tags.videoId]

\* the metrics tagged v
TaggedWith(v) == {k \in 1..Len(metrics) : metrics[k].tags.videoId = v}

\* position of the first identifier whose detail request fails, or one
\* past the end of the list
FirstFailed ==
  LET failing == {i \in 1..Len(videoIds) : ~detail[videoIds[i]].ok}
  IN IF failing = {} THEN Len(videoIds) + 1
     ELSE CHOOSE i \in failing : \A j \in failing : i <= j

RECURSIVE Emitting(_, _)
\* the identifiers among the first n of ids whose document has statistics
Emitting(ids, n) ==
  IF n = 0 THEN <<>>
  ELSE IF HasStatistics(ids[n]) THEN Append(Emitting(ids, n - 1), ids[n])
  ELSE Emitting(ids, n - 1)

\* gatherVideoStatistics has returned
StatsOver == pc \in {"stats_ret", "done"} /\ ~pageFailed

\* C4 as claimed: although the detail request of one identifier fails, a
\* metric is added for every other identifier whose own document is served
\* and has statistics, also for those after the failing one
ClaimC4 ==
  StatsOver =>
    \A i \in 1..Len(videoIds) :
       (videoIds[i] \in VideoIds /\ HasStatistics(videoIds[i]))
          => TaggedWith(videoIds[i]) # {}

\* C4 amended: gatherVideoStatistics returns at the first identifier whose
\* detail request fails: metrics are added, in list order, exactly for the
\* identifiers before it whose document has statistics, the identifiers
\* after it get no request and no metric, and the error is returned
ThmC4 ==
  StatsOver =>
    /\ TagsOf(metrics) = Emitting(videoIds, FirstFailed - 1)
    /\ statsReqs = IF FirstFailed <= Len(videoIds) THEN FirstFailed ELSE Len(videoIds)
    /\ statsErr = (FirstFailed <= Len(videoIds))

\* a cycle ended at a failed detail request, with a metric added before it
\* and an identifier after it that has not been seen and whose document
\* has statistics
WitC4 ==
  /\ pc = "done" /\ statsErr
  /\ Len(metrics) >= 1
  /\ \E j \in (idx + 1)..Len(videoIds) :
        /\ HasStatistics(videoIds[j])
        /\ \A i \in 1..idx : videoIds[i] # videoIds[j]

\* a string value that is not a number
Malformed(x) == x.type = "String" /\ ~parseInt(x.str).ok

\* C5: an item one of whose statistics fields is a string that is not a
\* number gets no metric (the extraction fails instead of writing 0)
ClaimC5 ==
  \A i \in 1..(idx - 1) :
     (\E f \in PresentKeys(videoIds[i]) : Malformed(StatsOf(videoIds[i]).members[f]))
        => TaggedWith(videoIds[i]) = {}

\* C6: when some of the five fields are absent from the statistics object
\* and the others are numbers or quoted numbers, the metric has exactly
\* the fields that are present
ClaimC6 ==
  \A k \in 1..Len(metrics) :
     LET v == metrics[k].tags.videoId IN
       ( /\ PresentKeys(v) # {} /\ PresentKeys(v) # StatKeys
         /\ \A f \in PresentKeys(v) :
               /\ StatsOf(v).members[f].type \in {"Number", "String"}
               /\ ~Malformed(StatsOf(v).members[f]) )
       => DOMAIN metrics[k].fields = PresentKeys(v)

\* x is one of the three encodings of n
Encodes(x, n) == x \in {NumberResult(n), Quoted(n), Wrapped(n)}

\* C7: two documents that encode the same number in the same field, as a
\* bare number, a quoted string or a wrapped quoted string, give the field
\* the same value
ClaimC7 ==
  \A k1, k2 \in 1..Len(metrics) : \A f \in StatKeys : \A n \in Numbers :
     LET v1 == metrics[k1].tags.videoId
         v2 == metrics[k2].tags.videoId
     IN ( /\ f \in PresentKeys(v1) /\ Encodes(StatsOf(v1).members[f], n)
          /\ f \in PresentKeys(v2) /\ Encodes(StatsOf(v2).members[f], n)
          /\ f \in DOMAIN metrics[k1].fields /\ f \in DOMAIN metrics[k2].fields )
        => metrics[k1].fields[f] = metrics[k2].fields[f]

\* C8: every metric added to the accumulator has at least one field
ThmC8 == \A k \in 1..Len(metrics) : DOMAIN metrics[k].fields # {}

\* a cycle ended without error in which an identifier without statistics
\* got no metric and another identifier got one
WitC8 ==
  /\ pc = "done" /\ ~statsErr /\ gatherRet = "nil"
  /\ Len(metrics) >= 1
  /\ \E i \in 1..Len(videoIds) :
        detail[videoIds[i]].ok /\ ~HasStatistics(videoIds[i])

\* C9: an item whose statistics is missing, empty or holds none of the
\* five keys gets no metric
ClaimC9 ==
  \A i \in 1..(idx - 1) :
     (StatsOf(videoIds[i]).type \in {"Null", "JSON"} /\ PresentKeys(videoIds[i]) = {})
        => TaggedWith(videoIds[i]) = {}

\* the numbers the upstream writes as quoted strings
QuotedNumbers == Numbers \cup {1, 74, 128, 843, 5574069}

\* the statistics of v hold all five fields as quoted integers
AllQuoted(v) ==
  /\ PresentKeys(v) = StatKeys
  /\ \A f \in StatKeys : \E n \in QuotedNumbers : StatsOf(v).members[f] = Quoted(n)

\* the integer a quoted field holds
NumberOf(x) == CHOOSE n \in QuotedNumbers : Quoted(n) = x

\* C10: an identifier whose document has its item with all five fields as
\* quoted integers gets exactly one metric per pass of the loop, named
\* youtube, tagged videoId, with the five integers as fields
ThmC10 ==
  \A i \in 1..(idx - 1) :
     LET v == videoIds[i] IN
       AllQuoted(v) =>
         /\ Cardinality(TaggedWith(v)) = Cardinality({j \in 1..(idx - 1) : videoIds[j] = v})
         /\ \A k \in TaggedWith(v) :
               /\ metrics[k].name = "youtube"
               /\ metrics[k].tags = [videoId |-> v]
               /\ metrics[k].fields = [f \in StatKeys |-> NumberOf(StatsOf(v).members[f])]

\* the loop ended over two identifiers with quoted statistics, the first
\* being the document of the test, the second found behind another item
WitC10 ==
  /\ pc = "stats_ret" /\ ~statsErr
  /\ Len(videoIds) = 2 /\ videoIds[1] # videoIds[2]
  /\ AllQuoted(videoIds[1]) /\ AllQuoted(videoIds[2])
  /\ Len(detail[videoIds[1]].json.items) = 1
  /\ Len(detail[videoIds[2]].json.items) = 2
  /\ Len(metrics) = 2
  /\ metrics[1].fields.viewCount = 5574069

(* ------------------------- the fetch (C11, C19) ------------------------ *)

\* C11: a response whose status is not 200 makes the fetch fail: after a
\* page response with another status the walk has returned an error and
\* no list, and the loop of gatherVideoStatistics has not gone past an
\* identifier whose detail response had another status
ClaimC11 ==
  /\ (pc = "walked" /\ \E i \in 1..Len(stack) :
                          stack[i].ok /\ stack[i].status # StatusOK)
        => (walkErr /\ videoIds = <<>>)
  /\ \A i \in 1..(idx - 1) : detail[videoIds[i]].status = StatusOK

(* ------------------------ the walker's list (C12) ---------------------- *)

\* C12: the list gatherPlaylist returns holds every identifier at most
\* once, also when the pages list an identifier more than once
ClaimC12 ==
  (pc = "walked" /\ ~walkErr) =>
    \A i, j \in 1..Len(videoIds) :
       (i # j /\ videoIds[i] \in VideoIds) => videoIds[i] # videoIds[j]

(* ------------------------- item errors (C13) --------------------------- *)

\* the positions of the list whose detail request fails
FailingPositions == {i \in 1..Len(videoIds) : ~detail[videoIds[i]].ok}

\* C13 as claimed: a cycle whose walk succeeded reports one error per
\* failing item and Gather returns nil
ClaimC13 ==
  (pc = "done" /\ ~walkErr) =>
     /\ gatherRet = "nil"
     /\ errors = Cardinality(FailingPositions)

\* C13 amended: a cycle whose walk succeeded reports exactly one error
\* when the detail request of at least one item fails, whatever the number
\* of failing items, none otherwise, and Gather returns nil
ThmC13 ==
  (pc = "done" /\ ~walkErr) =>
     /\ gatherRet = "nil"
     /\ errors = IF FailingPositions = {} THEN 0 ELSE 1

\* a cycle ended in which the detail requests of two different
\* identifiers fail and one error was reported
WitC13 ==
  /\ pc = "done" /\ ~walkErr /\ gatherRet = "nil"
  /\ errors = 1
  /\ \E i, j \in FailingPositions : videoIds[i] # videoIds[j]

(* --------------------------- aborted cycle (C14) ----------------------- *)

\* C14: once a request of a cycle has failed, no request is in flight any
\* more in that cycle and the counts stay where the failure left them:
\* after a failed page request no detail request and no metric, after a
\* failed detail request for the identifier at idx exactly idx detail
\* requests and the metrics of the identifiers before it; the failure is
\* reported, as Gather's error for a page, through AddError for a detail
ThmC14 ==
  /\ (pageFailed \/ statsErr) => pc \in {"walked", "stats_ret", "done"}
  /\ pageFailed =>
       /\ statsReqs = 0 /\ statsLog = <<>> /\ metrics = <<>>
       /\ (pc = "done" => gatherRet = "err")
  /\ statsErr =>
       /\ statsReqs = idx /\ Len(statsLog) = idx
       /\ TagsOf(metrics) = Emitting(videoIds, idx - 1)
       /\ (pc = "done" => (errors = 1 /\ gatherRet = "nil"))

\* a cycle ended at the failed detail request of the second of at least
\* three identifiers: two requests were sent, one metric was added, the
\* third identifier has statistics and the error was reported
WitC14 ==
  /\ pc = "done" /\ statsErr /\ errors = 1
  /\ Len(videoIds) >= 3 /\ idx = 2
  /\ statsReqs = 2 /\ Len(metrics) = 1
  /\ HasStatistics(videoIds[3])

(* --------------------------- end of the walk (C15) --------------------- *)

\* the last page response of the walk failed or carries no token
ChainEnded ==
  /\ stack # <<>>
  /\ LET last == stack[Len(stack)]
     IN ~last.ok \/ ~last.json.nextPageToken.exists

\* C15: the walk goes on exactly as long as every fetched page carries a
\* token, and when a page without token or a failed fetch ends the chain
\* gatherPlaylist returns
ClaimC15 ==
  /\ pc = "page_req" =>
       \A i \in 1..Len(stack) : stack[i].ok /\ stack[i].json.nextPageToken.exists
  /\ ChainEnded => pc = "walked"

(* ----------------------- one cycle after another (C16) ----------------- *)

\* C16: a call of Gather starts with an empty identifier list, an empty
\* request log and no metric, also after an earlier call; the list the
\* walk returns holds only identifiers listed in the pages of this call
\* (and the "" of unfilled slots), detail requests are sent only for the
\* identifiers of that list, and every metric is tagged with a requested
\* identifier and, when the loop is over, has the fields extracted from
\* the document this call received for it
ThmC16 ==
  /\ (pc = "page_req" /\ stack = <<>>) =>
        (videoIds = <<>> /\ statsLog = <<>> /\ metrics = <<>>)
  /\ (pc = "walked" /\ ~walkErr) => IdsIn(videoIds) \subseteq (ListedIds(stack) \cup {""})
  /\ \A k \in 1..Len(statsLog) : k <= Len(videoIds) /\ statsLog[k] = videoIds[k]
  /\ \A k \in 1..Len(metrics) :
        \E j \in 1..Len(statsLog) : metrics[k].tags.videoId = statsLog[j]
  /\ pc = "stats_ret" =>
        \A k \in 1..Len(metrics) :
           LET v == metrics[k].tags.videoId
           IN metrics[k].fields = extractAllStats(Json(sendRequest(detail[v]).body), v)

\* a call of Gather that followed an earlier one ended with the list
\* <<"b">> and one metric, for b
WitC16 ==
  /\ earlier /\ pc = "done" /\ gatherRet = "nil"
  /\ videoIds = <<"b">>
  /\ TagsOf(metrics) = <<"b">>

(* --------------------- requests per identifier (C17) ------------------- *)

RECURSIVE IsSubseq(_, _)
\* s can be had from t by leaving elements out
IsSubseq(s, t) ==
  IF s = <<>> THEN TRUE
  ELSE IF t = <<>> THEN FALSE
  ELSE IF Head(s) = Head(t) THEN IsSubseq(Tail(s), Tail(t))
  ELSE IsSubseq(s, Tail(t))

\* C17 as claimed: when gatherVideoStatistics has returned, one detail
\* request was sent for every position of the list, in list order, and
\* there are no more metrics than positions
ClaimC17 ==
  StatsOver => (statsLog = videoIds /\ Len(metrics) <= Len(videoIds))

\* C17 amended: the detail requests sent are those of an initial part of
\* the list, one per position and in list order, so that no request is
\* repeated; when gatherVideoStatistics has returned that part ends at the
\* first position whose request fails, or is the whole list; and the
\* metrics are tagged with requested identifiers, in request order, at
\* most one per request
ThmC17 ==
  /\ Len(statsLog) <= Len(videoIds)
  /\ statsLog = SubSeq(videoIds, 1, Len(statsLog))
  /\ statsReqs = Len(statsLog)
  /\ StatsOver =>
       Len(statsLog) = IF FirstFailed <= Len(videoIds) THEN FirstFailed ELSE Len(videoIds)
  /\ IsSubseq(TagsOf(metrics), statsLog)

\* a cycle ended at the failed detail request of the first of two
\* different identifiers: one request was sent, none for the second
WitC17 ==
  /\ pc = "done" /\ statsErr
  /\ Len(videoIds) = 2 /\ videoIds[1] # videoIds[2]
  /\ detail[videoIds[2]].ok
  /\ statsLog = <<videoIds[1]>>
  /\ metrics = <<>>

(* ------------------------ order of the list (C18) ---------------------- *)

RECURSIVE ListedFrom(_, _)
\* the identifiers of the pages i.. of a walk, page after page, in the
\* order of the pages' items
ListedFrom(pages, i) ==
  IF i > Len(pages) THEN <<>>
  ELSE pages[i].json.items \o ListedFrom(pages, i + 1)

\* the identifiers of a list without the "" of unfilled slots
Filled(ids) == SelectSeq(ids, LAMBDA v : v # "")

\* C18: the identifiers of the returned list stand in the order in which
\* the pages list them, page after page (the list without its unfilled
\* slots is the pages' listing with elements left out), and it begins with
\* the identifiers of the first page in their order
ThmC18 ==
  (pc = "walked" /\ ~walkErr) =>
     /\ IsSubseq(Filled(videoIds), ListedFrom(stack, 1))
     /\ SubSeq(videoIds, 1, Len(stack[1].json.items)) = stack[1].json.items

\* a walk of two pages returned: the first lists a then b, the second
\* lists b then a, and the list holds all four in that order
WitC18 ==
  /\ pc = "walked" /\ ~walkErr
  /\ Len(stack) = 2
  /\ stack[1].json.items = <<"a", "b">>
  /\ stack[2].json.items = <<"b", "a">>
  /\ videoIds = <<"a", "b", "b", "a">>

(* --------------------------- byte-order mark (C19) --------------------- *)

\* C19: no body that sendRequest has returned to gatherPlaylist or to the
\* loop of gatherVideoStatistics starts with a byte-order mark
ClaimC19 ==
  /\ \A i \in 1..Len(stack) :
        ~sendRequest(stack[i]).err => ~sendRequest(stack[i]).body.bom
  /\ \A i \in 1..(idx - 1) : ~sendRequest(detail[videoIds[i]]).body.bom

(* -------------------- GitHub contributors' tags (C20) ------------------ *)

\* C20: every github_contributors metric in the accumulator has the tags
\* repo and repo_id, and they are the full_name and the id tag of the
\* repository metric whose contributors request produced it
ThmC20 ==
  \A k \in 1..Len(ghAcc) :
     ghAcc[k].name = "github_contributors" =>
        /\ ghAcc[k].of \in 1..Len(ghMetrics)
        /\ HasTag(ghAcc[k].tags, "repo") /\ HasTag(ghAcc[k].tags, "repo_id")
        /\ ghAcc[k].tags.repo = ghMetrics[ghAcc[k].of].tags.full_name
        /\ ghAcc[k].tags.repo_id = ghMetrics[ghAcc[k].of].tags.id

\* Gather returned after contributors were added for two different
\* repositories, one of them parsed with a repo tag of its own
WitC20 ==
  /\ ghPc = "done" /\ ghRet = "nil"
  /\ \E j, k \in 1..Len(ghAcc) :
        /\ ghAcc[j].name = "github_contributors" /\ ghAcc[j].tags.repo = "org/x"
        /\ ghAcc[j].tags.repo_id = "1"
        /\ ghAcc[k].name = "github_contributors" /\ ghAcc[k].tags.repo = "org/y"
        /\ ghAcc[k].tags.repo_id = "2"
  /\ \E resp \in GithubResponses(ContributorMetrics, MaxContributors) :
        /\ ~Fetched(resp).err /\ Len(resp.metrics) = 1
        /\ HasTag(resp.metrics[1].tags, "repo")
        /\ ghAcc[Len(ghAcc)] =
             ContributorsAdded(resp.metrics, "org/y", "2", Len(ghMetrics))[1]

(* ------------------------ one request at a time (C21) ------------------ *)

\* the detail requests of the cycle that have been answered
StatsAnswered == (idx - 1) + (IF statsErr THEN 1 ELSE 0)

\* C21: at most one request of a cycle is outstanding: while a page
\* request is in flight every earlier page request has been answered and
\* no detail request has been sent; when the walk has returned every page
\* request has been answered; while a detail request is in flight it is
\* the only request not answered; and a detail request is sent only after
\* the walk has returned
ThmC21 ==
  /\ pc = "page_req" => (pageReqs = Len(stack) + 1 /\ statsReqs = 0)
  /\ pc \in {"walked", "panic"} => (pageReqs = Len(stack) /\ statsReqs = 0)
  /\ pc = "stats_req" => statsReqs = StatsAnswered + 1
  /\ pc \in {"stats_ret", "done"} => statsReqs = StatsAnswered
  /\ statsReqs > 0 => pc \in {"stats_req", "stats_ret", "done"}

\* the second detail request is in flight after a walk of two pages
WitC21 ==
  /\ pc = "stats_req"
  /\ pageReqs = 2
  /\ statsReqs = 2 /\ idx = 2
  /\ Len(metrics) = 1

(* ----------------------- later pages first (C22) ----------------------- *)

\* C22: the identifiers of the second page of a chain are handled before
\* any identifier of the first page: when a walk of two pages that list
\* different identifiers, each page reporting as resultsPerPage the number
\* of its items, has returned, the first detail request that
\* gatherVideoStatistics sends is for an identifier of the second page
ClaimC22 ==
  [][(/\ pc = "walked" /\ pc' = "stats_req"
      /\ Len(stack) = 2
      /\ \A i \in 1..2 : stack[i].json.resultsPerPage = Len(stack[i].json.items)
      /\ stack[1].json.items # <<>> /\ stack[2].json.items # <<>>
      /\ IdsIn(stack[1].json.items) \cap IdsIn(stack[2].json.items) = {})
       => statsLog'[1] \in IdsIn(stack[2].json.items)]_vars

(* ---------------------- writes into the list (C23) --------------------- *)

\* C23: gatherPlaylist never writes outside its list and never over an
\* identifier of a later page: no call panics with an index out of range,
\* and in a walk that has returned a list no page that has identifiers of
\* later pages appended behind its slots lists more items than its
\* resultsPerPage
ClaimC23 ==
  /\ pc # "panic"
  /\ (pc = "walked" /\ ~walkErr) =>
        \A i \in 1..(Len(stack) - 1) :
           gatherPlaylist(stack, i + 1).ids # <<>> =>
              Len(stack[i].json.items) <= stack[i].json.resultsPerPage

(* --------------------------- request URLs (C25) ------------------------ *)

\* C25: the request in flight is built for its own call only: a listing
\* request goes to the playlistItems path with exactly part=snippet,
\* playlistId and key, and pageToken if and only if the call was given a
\* non-empty token; a detail request goes to the videos path with exactly
\* part=statistics, key and the id of the identifier of the pass
ThmC25 ==
  /\ pc = "page_req" =>
       /\ request.Path = playlist_items_endpoint
       /\ DOMAIN request.RawQuery =
            {"part", "playlistId", "key"} \cup
            (IF pageToken # "" THEN {"pageToken"} ELSE {})
       /\ request.RawQuery.part = "snippet"
       /\ request.RawQuery.playlistId = PlaylistId
       /\ request.RawQuery.key = ApiKey
       /\ pageToken # "" => request.RawQuery.pageToken = pageToken
  /\ pc = "stats_req" =>
       /\ request.Path = video_statistics_endpoint
       /\ request.RawQuery = [part |-> "statistics", key |-> ApiKey, id |-> videoIds[idx]]

\* in a call of Gather that followed an earlier one, the second detail
\* request is in flight after two page requests, the second of which
\* carried a pageToken
WitC25 ==
  /\ earlier
  /\ pc = "stats_req" /\ idx = 2
  /\ pageReqs = 2 /\ pageToken = "t1"
  /\ request.RawQuery.id = videoIds[2]

(* ------------------------- continuation tokens (C26) ------------------- *)

\* C26: the first page request of a walk carries no pageToken, and every
\* later page request carries as pageToken the nextPageToken of the page
\* received just before it, whatever its value, so that the first page is
\* not requested again
ClaimC26 ==
  pc = "page_req" =>
     IF stack = <<>>
     THEN "pageToken" \notin DOMAIN request.RawQuery
     ELSE /\ "pageToken" \in DOMAIN request.RawQuery
          /\ request.RawQuery.pageToken = stack[Len(stack)].json.nextPageToken.str

(* ------------------------------ the mutex (C24) ------------------------ *)

\* the goroutines that are in Gather, between Lock and return
InGather == {c \in Callers : callers[c] = "in"}

\* C24: the mutex is held exactly while a call of Gather is between its
\* Lock and its return: then exactly one goroutine is in Gather and every
\* other caller is outside or blocked in Lock, so that the request in
\* flight is that call's; after every return, the one on a walker error
\* included, the mutex is free and no goroutine is in Gather
ThmC24 ==
  /\ mutex <=> pc \in {"page_req", "walked", "stats_req", "stats_ret"}
  /\ Cardinality(InGather) = IF mutex THEN 1 ELSE 0
  /\ (pc = "done" /\ gatherRet = "err") => (~mutex /\ InGather = {})

\* the second goroutine is in Gather with a detail request in flight,
\* after an earlier call has returned, while the first is blocked in Lock
WitC24 ==
  /\ earlier
  /\ callers["g2"] = "in" /\ callers["g1"] = "lock"
  /\ mutex
  /\ pc = "stats_req"

(* ----------------------- GitHub contributors (C28) --------------------- *)

\* gatherTopStats asks for the contributors of the repository at position p
Wanted(p) ==
  /\ GetContributors
  /\ HasTag(ghMetrics[p].tags, "full_name")
  /\ HasTag(ghMetrics[p].tags, "id")

\* the contributors requests answered for the repository at position p
AskedFor(p) == {k \in 1..Len(ghReqs) : ghReqs[k].of = p}

\* the repository metrics in the accumulator, in the order they were added
RepoAdded == SelectSeq(ghAcc, LAMBDA m : m.of = 0)

\* C28: contributors are requested only for a repository metric with the
\* tags full_name and id, and only with get_contributors set; every failed
\* request is counted by AddError; and when the listing was fetched and
\* the goroutine is done, every repository metric of the listing has been
\* added, in order, and every repository whose contributors are wanted
\* got its request, whichever requests failed
ThmC28 ==
  /\ ghPc = "contrib_req" => Wanted(ghIdx)
  /\ \A k \in 1..Len(ghReqs) :
        ghReqs[k].of # 0 => (ghReqs[k].of \in 1..Len(ghMetrics) /\ Wanted(ghReqs[k].of))
  /\ ghErrors = Cardinality({k \in 1..Len(ghReqs) : ghReqs[k].err})
  /\ (ghPc = "done" /\ ghReqs # <<>> /\ ~ghReqs[1].err) =>
        /\ Len(RepoAdded) = Len(ghMetrics)
        /\ \A p \in 1..Len(ghMetrics) :
              /\ RepoAdded[p].name = ghMetrics[p].name
              /\ RepoAdded[p].tags = ghMetrics[p].tags
              /\ RepoAdded[p].fields = ghMetrics[p].fields
              /\ Cardinality(AskedFor(p)) = IF Wanted(p) THEN 1 ELSE 0

\* Gather returned after a listing of two repositories: the contributors
\* request of the first failed, the second repository was added and its
\* contributors were added
WitC28 ==
  /\ ghPc = "done" /\ ghRet = "nil"
  /\ Len(ghMetrics) = 2
  /\ ghReqs = <<Answered(0, FALSE), Answered(1, TRUE), Answered(2, FALSE)>>
  /\ ghErrors = 1
  /\ Len(RepoAdded) = 2
  /\ \E k \in 1..Len(ghAcc) : ghAcc[k].of = 2

(* ---------------------- Twitter timeline failure (C30) ----------------- *)

\* C30: when TimelineShow returned an error and no tweets, the goroutine
\* has recorded that error with AddError and no metric has been added
ClaimC30 ==
  (twitter.pc = "done" /\ twitter.show.err /\ twitter.show.tweets = <<>>) =>
     /\ twitter.errors = <<"request">>
     /\ twitter.acc = <<>>

(* ----------------------- Wordpress gatherers (C29) --------------------- *)

\* the URI settings that are not empty, in the order of the goroutine
NonEmpty(uris) == SelectSeq(Gatherers, LAMBDA g : uris[g] # "")

\* the URI settings whose gatherers have run, in the order they ran
RanUris(ran) == [k \in 1..Len(ran) |-> ran[k].uri]

\* the URI settings whose gatherers returned an error, in the order they ran
FailedUris(ran) == RanUris(SelectSeq(ran, LAMBDA r : r.err))

\* C29: when the goroutine of Wordpress Gather has passed its four tests,
\* the gatherers that ran are those of the non-empty URI settings, in the
\* order top-posts, summary, posts, tag-stats, and AddError has recorded
\* one error for each gatherer that failed, the later ones having run
ThmC29 ==
  wordpress.pc \in {"end", "done"} =>
     /\ RanUris(wordpress.ran) = NonEmpty(wordpress.uris)
     /\ wordpress.errors = FailedUris(wordpress.ran)

\* Gather has returned on an instance without summary URI: the top-posts
\* gatherer failed, the posts and tag-stats gatherers ran after it and
\* the tag-stats gatherer added a metric
WitC29 ==
  /\ wordpress.ret = "nil"
  /\ wordpress.uris.SummaryStatsURI = ""
  /\ Len(wordpress.ran) = 3
  /\ wordpress.ran[1].err
  /\ ~wordpress.ran[3].err
  /\ wordpress.errors = <<"TopPostsStatsURI">>
  /\ \E k \in 1..Len(wordpress.acc) : wordpress.acc[k].name = "wordpress_tagstats"

(* ------------------- Gather and its goroutine (C27) -------------------- *)

\* where Gather has returned, its goroutine has ended and the counter of
\* the WaitGroup is zero
GoroutineEnded ==
  /\ youtubeGo.ret = "nil" => (youtubeGo.pc = "done" /\ youtubeGo.wg = 0)
  /\ ghRet = "nil" => (ghPc = "done" /\ ghWg = 0)
  /\ twitter.ret = "nil" => (twitter.pc = "done" /\ twitter.wg = 0)
  /\ wordpress.ret = "nil" => (wordpress.pc = "done" /\ wordpress.wg = 0)

\* a step taken after Gather has returned, and before it is called again,
\* leaves the accumulator as it is
NothingAdded ==
  /\ (youtubeGo.ret = "nil" /\ youtubeGo'.ret = "nil") => youtubeGo'.acc = youtubeGo.acc
  /\ (ghRet = "nil" /\ ghRet' = "nil") => (ghAcc' = ghAcc /\ ghErrors' = ghErrors)
  /\ (twitter.ret = "nil" /\ twitter'.ret = "nil") =>
        (twitter'.acc = twitter.acc /\ twitter'.errors = twitter.errors)
  /\ (wordpress.ret = "nil" /\ wordpress'.ret = "nil") =>
        (wordpress'.acc = wordpress.acc /\ wordpress'.errors = wordpress.errors)

\* C27: in the YouTube, GitHub, Twitter and Wordpress inputs whose Gather
\* starts a goroutine, Gather has returned only where the goroutine has
\* ended, and no metric and no error is added to the accumulator after
\* Gather has returned
ThmC27 == []GoroutineEnded /\ [][NothingAdded]_vars

\* Gather of the GitHub input has returned after its goroutine has added
\* a metric and an error to the accumulator
WitC27 ==
  /\ ghRet = "nil"
  /\ ghPc = "done"
  /\ ghAcc # <<>>
  /\ ghErrors > 0

====
